---- MODULE Spec2Model ----
(***************************************************************************)
(* A model of the 6502 interpreter of rnd-squadron/6502-emulators          *)
(* (rust/src/cpu.rs, rust/src/instructions.rs, rust/src/status_flag.rs).   *)
(*                                                                         *)
(* The machine is the struct Nes {cpu, memory}.  Every Rust method is an   *)
(* operator over a record `nes` holding the fields of `self`.  A panic     *)
(* (an index out of bounds, a todo!(), a checked overflow) is carried in   *)
(* what the method hands back and cuts the rest of every caller short,     *)
(* exactly as unwinding does.                                              *)
(***************************************************************************)
EXTENDS Integers, Sequences, FiniteSets, TLC

VARIABLES
    cpu,      \* struct Cpu: the six registers
    memory,   \* Nes::memory, the non-zero bytes of [u8; 0xFFFF]
    build,    \* how the crate was built: overflow checks, target endianness
    phase,    \* where the caller is: "idle", "running", "returned", "panicked"
    panic,    \* the panic message once a call has panicked, else "none"
    calls,    \* number of API calls made so far
    steps,    \* number of iterations of the loop of run() so far
    last      \* what the last call or loop iteration did (observation only)

vars == <<cpu, memory, build, phase, panic, calls, steps, last>>

-----------------------------------------------------------------------------
(* Fixed-width arithmetic.                                                 *)

Wrap8(v) == v % 256
Wrap16(v) == v % 65536
Bit(v, i) == (v \div (2 ^ i)) % 2

BitAnd(a, b) ==
    LET f[i \in 0..16] ==
            IF i = 16 THEN 0
            ELSE (IF Bit(a, i) = 1 /\ Bit(b, i) = 1 THEN 2 ^ i ELSE 0) + f[i + 1]
    IN f[0]

BitOr(a, b) ==
    LET f[i \in 0..16] ==
            IF i = 16 THEN 0
            ELSE (IF Bit(a, i) = 1 \/ Bit(b, i) = 1 THEN 2 ^ i ELSE 0) + f[i + 1]
    IN f[0]

BitXor(a, b) ==
    LET f[i \in 0..16] ==
            IF i = 16 THEN 0
            ELSE (IF Bit(a, i) # Bit(b, i) THEN 2 ^ i ELSE 0) + f[i + 1]
    IN f[0]

-----------------------------------------------------------------------------
(* Panics.  `nes.panic` is "none" while the call is still running.         *)

NoPanic == "none"
OutOfBounds == "index out of bounds"
AddOverflow == "attempt to add with overflow"
OpcodeNotFound == "Opcode not found!"
NotImplemented == "not implemented"
ModeNotImplemented == "Addressing mode not implemented!"
RangeOutOfBounds == "range end index out of range for slice"
FileNotFound == "File not found"
ByteStreamError == "Error processing byte stream for ROM"

Ok(nes) == nes.panic = NoPanic
Panic(nes, message) == [nes EXCEPT !.panic = message]

\* What a method that returns a value hands back: the value, or the panic
\* that cut it short.
Done(value) == [panic |-> NoPanic, value |-> value]
Fail(message) == [panic |-> message, value |-> -1]

\* `let x = <result>; K(x)` inside a method that returns a value ...
Then(result, K(_)) ==
    IF result.panic = NoPanic THEN K(result.value) ELSE result

\* ... and inside a method that works on `self`.
Try(nes, result, K(_)) ==
    IF result.panic = NoPanic THEN K(result.value) ELSE Panic(nes, result.panic)

\* `a + b` on u16: panics when the build checks overflow, wraps otherwise.
AddU16(a, b) ==
    IF a + b > 65535 /\ build.overflow_checks
    THEN Fail(AddOverflow)
    ELSE Done(Wrap16(a + b))

-----------------------------------------------------------------------------
(* Memory: `memory: [u8; 0xFFFF]`, all zero after construction.  The model *)
(* keeps the non-zero bytes only; every other index below MemoryLen is 0.  *)

STACK_START == 256
MemoryLen == 65535

Nes_default_memory == [a \in {} |-> 0]

Byte(mem, a) == IF a \in DOMAIN mem THEN mem[a] ELSE 0

Store(mem, a, d) ==
    IF d = 0
    THEN [x \in (DOMAIN mem) \ {a} |-> mem[x]]
    ELSE [x \in (DOMAIN mem) \cup {a} |-> IF x = a THEN d ELSE mem[x]]

mem_read_8(nes, address) ==
    IF address >= MemoryLen
    THEN Fail(OutOfBounds)
    ELSE Done(Byte(nes.memory, address))

mem_write_8(nes, address, data) ==
    IF address >= MemoryLen
    THEN Panic(nes, OutOfBounds)
    ELSE [nes EXCEPT !.memory = Store(@, address, data)]

mem_read_16(nes, address) ==
    Then(mem_read_8(nes, address), LAMBDA low:
        Then(mem_read_8(nes, Wrap16(address + 1)), LAMBDA high:
            Done(high * 256 + low)))

mem_write_16(nes, address, data) ==
    LET high == data \div 256
        low == data % 256
        nes1 == mem_write_8(nes, address, low)
    IN IF Ok(nes1) THEN mem_write_8(nes1, Wrap16(address + 1), high) ELSE nes1

StackAddress(stack_pointer) == STACK_START + stack_pointer

\* The byte pop_stack returns is left in `ret`.
pop_stack(nes) ==
    LET sp == Wrap8(nes.cpu.stack_pointer + 1)
        nes1 == [nes EXCEPT !.cpu.stack_pointer = sp,
                            !.stack = Append(@, StackAddress(sp))]
    IN Try(nes1, mem_read_8(nes1, StackAddress(sp)), LAMBDA data:
           [nes1 EXCEPT !.ret = data])

\* push_stack with the decrement moved before the write.
push_stack_decrement_first(nes, data) ==
    LET sp == Wrap8(nes.cpu.stack_pointer + 255)
        address == StackAddress(sp)
        nes1 == mem_write_8([nes EXCEPT !.stack = Append(@, address)], address, data)
    IN IF Ok(nes1) THEN [nes1 EXCEPT !.cpu.stack_pointer = sp] ELSE nes1

push_stack(nes, data) ==
    LET address == StackAddress(nes.cpu.stack_pointer)
        nes1 == mem_write_8([nes EXCEPT !.stack = Append(@, address)], address, data)
    IN IF Ok(nes1)
       THEN [nes1 EXCEPT !.cpu.stack_pointer = Wrap8(@ + 255)]
       ELSE nes1

-----
(* The status register.                                                    *)

StatusFlag ==
    {"Carry", "Zero", "Interrupt", "Decimal", "Break", "Constant", "Overflow", "Negative"}

bit_shift(flag) ==
    CASE flag = "Carry"     -> 1
      [] flag = "Zero"      -> 2
      [] flag = "Interrupt" -> 4
      [] flag = "Decimal"   -> 8
      [] flag = "Break"     -> 16
      [] flag = "Constant"  -> 32
      [] flag = "Overflow"  -> 64
      [] flag = "Negative"  -> 128

StatusHas(status, flag) == BitAnd(status, bit_shift(flag)) # 0

has_flag(nes, flag) == StatusHas(nes.cpu.status, flag)

enable_flag(nes, flag) ==
    [nes EXCEPT !.cpu.status = BitOr(@, bit_shift(flag))]

disable_flag(nes, flag) ==
    [nes EXCEPT !.cpu.status = BitXor(@, bit_shift(flag))]

update_flag(nes, flag, is_enable) ==
    IF is_enable THEN enable_flag(nes, flag) ELSE disable_flag(nes, flag)

\* update_zero_and_negative_flags also deriving Carry from the value.
update_zero_and_negative_flags_with_carry(nes, value) ==
    LET nes1 == update_flag([nes EXCEPT !.zn = value], "Zero", value = 0)
        nes2 == update_flag(nes1, "Negative", value \div 128 = 1)
    IN update_flag(nes2, "Carry", value = 0)

update_zero_and_negative_flags(nes, value) ==
    LET nes1 == update_flag([nes EXCEPT !.zn = value], "Zero", value = 0)
    IN update_flag(nes1, "Negative", value \div 128 = 1)

-----------------------------------------------------------------------------
(* The opcode table: <<code, instruction, bytes, cycles, address_mode>>.   *)

OpCodeRows == {
    <<0, "Brk", 1, 7, "Implied">>,
    <<105, "Adc", 2, 2, "Immediate">>,
    <<101, "Adc", 2, 3, "ZeroPage">>,
    <<117, "Adc", 2, 4, "ZeroPageX">>,
    <<109, "Adc", 3, 4, "Absolute">>,
    <<125, "Adc", 3, 4, "AbsoluteX">>,
    <<121, "Adc", 3, 4, "AbsoluteY">>,
    <<97, "Adc", 2, 6, "IndexedIndirectX">>,
    <<113, "Adc", 2, 5, "IndirectIndexedY">>,
    <<41, "And", 2, 2, "Immediate">>,
    <<37, "And", 2, 3, "ZeroPage">>,
    <<53, "And", 2, 4, "ZeroPageX">>,
    <<45, "And", 3, 4, "Absolute">>,
    <<61, "And", 3, 4, "AbsoluteX">>,
    <<57, "And", 3, 4, "AbsoluteY">>,
    <<33, "And", 2, 6, "IndexedIndirectX">>,
    <<49, "And", 2, 5, "IndexedIndirectX">>,
    <<10, "Asl", 1, 2, "Accumulator">>,
    <<6, "Asl", 2, 5, "ZeroPage">>,
    <<22, "Asl", 2, 6, "ZeroPageX">>,
    <<14, "Asl", 3, 6, "Absolute">>,
    <<30, "Asl", 3, 7, "AbsoluteX">>,
    <<201, "Cmp", 2, 2, "Immediate">>,
    <<197, "Cmp", 2, 3, "ZeroPage">>,
    <<213, "Cmp", 2, 4, "ZeroPageX">>,
    <<205, "Cmp", 3, 4, "Absolute">>,
    <<221, "Cmp", 3, 4, "AbsoluteX">>,
    <<217, "Cmp", 3, 4, "AbsoluteY">>,
    <<193, "Cmp", 2, 6, "IndexedIndirectX">>,
    <<209, "Cmp", 2, 5, "IndirectIndexedY">>,
    <<224, "Cpx", 2, 2, "Immediate">>,
    <<228, "Cpx", 2, 3, "ZeroPage">>,
    <<236, "Cpx", 3, 4, "Absolute">>,
    <<192, "Cpy", 2, 2, "Immediate">>,
    <<196, "Cpy", 2, 3, "ZeroPage">>,
    <<204, "Cpy", 3, 4, "Absolute">>,
    <<198, "Dec", 2, 5, "ZeroPage">>,
    <<214, "Dec", 2, 6, "ZeroPageX">>,
    <<206, "Dec", 3, 6, "Absolute">>,
    <<222, "Dec", 3, 7, "AbsoluteX">>,
    <<73, "Eor", 2, 2, "Immediate">>,
    <<69, "Eor", 2, 3, "ZeroPage">>,
    <<85, "Eor", 2, 4, "ZeroPageX">>,
    <<77, "Eor", 3, 4, "Absolute">>,
    <<93, "Eor", 3, 4, "AbsoluteX">>,
    <<89, "Eor", 3, 4, "AbsoluteY">>,
    <<65, "Eor", 2, 6, "IndexedIndirectX">>,
    <<81, "Eor", 2, 5, "IndirectIndexedY">>,
    <<230, "Inc", 2, 5, "ZeroPage">>,
    <<246, "Inc", 2, 6, "ZeroPageX">>,
    <<238, "Inc", 3, 6, "Absolute">>,
    <<254, "Inc", 3, 7, "AbsoluteX">>,
    <<76, "Jmp", 3, 3, "Absolute">>,
    <<108, "Jmp", 3, 5, "Indirect">>,
    <<32, "Jsr", 3, 6, "Absolute">>,
    <<169, "Lda", 2, 2, "Immediate">>,
    <<165, "Lda", 2, 3, "ZeroPage">>,
    <<181, "Lda", 2, 4, "ZeroPageX">>,
    <<173, "Lda", 3, 4, "Absolute">>,
    <<189, "Lda", 3, 4, "AbsoluteX">>,
    <<185, "Lda", 3, 4, "AbsoluteY">>,
    <<161, "Lda", 2, 6, "IndexedIndirectX">>,
    <<177, "Lda", 2, 5, "IndirectIndexedY">>,
    <<162, "Ldx", 2, 2, "Immediate">>,
    <<166, "Ldx", 2, 3, "ZeroPage">>,
    <<182, "Ldx", 2, 4, "ZeroPageY">>,
    <<174, "Ldx", 3, 4, "Absolute">>,
    <<190, "Ldx", 3, 4, "AbsoluteY">>,
    <<160, "Ldy", 2, 2, "Immediate">>,
    <<164, "Ldy", 2, 3, "ZeroPage">>,
    <<180, "Ldy", 2, 4, "ZeroPageX">>,
    <<172, "Ldy", 3, 4, "Absolute">>,
    <<188, "Ldy", 3, 4, "AbsoluteX">>,
    <<74, "Lsr", 1, 2, "Accumulator">>,
    <<70, "Lsr", 2, 5, "ZeroPage">>,
    <<86, "Lsr", 2, 6, "ZeroPageX">>,
    <<78, "Lsr", 3, 6, "Absolute">>,
    <<94, "Lsr", 3, 7, "AbsoluteX">>,
    <<9, "Ora", 2, 2, "Immediate">>,
    <<5, "Ora", 2, 3, "ZeroPage">>,
    <<21, "Ora", 2, 4, "ZeroPageX">>,
    <<13, "Ora", 3, 4, "Absolute">>,
    <<29, "Ora", 3, 4, "AbsoluteX">>,
    <<25, "Ora", 3, 4, "AbsoluteY">>,
    <<1, "Ora", 2, 6, "IndexedIndirectX">>,
    <<17, "Ora", 2, 5, "IndirectIndexedY">>,
    <<42, "Rol", 1, 1, "Accumulator">>,
    <<38, "Rol", 2, 2, "ZeroPage">>,
    <<54, "Rol", 2, 2, "ZeroPageX">>,
    <<46, "Rol", 3, 3, "Absolute">>,
    <<62, "Rol", 3, 3, "AbsoluteX">>,
    <<106, "Ror", 1, 2, "Accumulator">>,
    <<102, "Ror", 2, 5, "ZeroPage">>,
    <<118, "Ror", 2, 6, "ZeroPageX">>,
    <<110, "Ror", 3, 6, "Absolute">>,
    <<126, "Ror", 3, 7, "AbsoluteX">>,
    <<233, "Sbc", 2, 2, "Immediate">>,
    <<229, "Sbc", 2, 3, "ZeroPage">>,
    <<245, "Sbc", 2, 4, "ZeroPageX">>,
    <<237, "Sbc", 3, 4, "Absolute">>,
    <<253, "Sbc", 3, 4, "AbsoluteX">>,
    <<249, "Sbc", 3, 4, "AbsoluteY">>,
    <<225, "Sbc", 2, 6, "IndexedIndirectX">>,
    <<241, "Sbc", 2, 5, "IndirectIndexedY">>,
    <<133, "Sta", 2, 3, "ZeroPage">>,
    <<149, "Sta", 2, 4, "ZeroPageX">>,
    <<141, "Sta", 3, 4, "Absolute">>,
    <<157, "Sta", 3, 5, "AbsoluteX">>,
    <<153, "Sta", 3, 5, "AbsoluteY">>,
    <<129, "Sta", 2, 6, "IndexedIndirectX">>,
    <<145, "Sta", 2, 6, "IndirectIndexedY">>,
    <<134, "Stx", 2, 3, "ZeroPage">>,
    <<150, "Stx", 2, 4, "ZeroPageY">>,
    <<142, "Stx", 3, 4, "Absolute">>,
    <<132, "Sty", 2, 3, "ZeroPage">>,
    <<148, "Sty", 2, 4, "ZeroPageX">>,
    <<140, "Sty", 3, 4, "Absolute">>,
    <<232, "Inx", 1, 2, "Implied">>,
    <<200, "Iny", 1, 2, "Implied">>,
    <<202, "Dex", 1, 2, "Implied">>,
    <<136, "Dey", 1, 2, "Implied">>,
    <<170, "Tax", 1, 2, "Implied">>,
    <<168, "Tay", 1, 2, "Implied">>,
    <<186, "Tsx", 1, 2, "Implied">>,
    <<138, "Txa", 1, 2, "Implied">>,
    <<154, "Txs", 1, 2, "Implied">>,
    <<152, "Tya", 1, 2, "Implied">>,
    <<56, "Sec", 1, 2, "Implied">>,
    <<24, "Clc", 1, 2, "Implied">>,
    <<184, "Clv", 1, 2, "Implied">>,
    <<120, "Sei", 1, 2, "Implied">>,
    <<88, "Cli", 1, 2, "Implied">>,
    <<248, "Sed", 1, 2, "Implied">>,
    <<216, "Cld", 1, 2, "Implied">>,
    <<48, "Bmi", 2, 2, "Relative">>,
    <<16, "Bpl", 2, 2, "Relative">>,
    <<112, "Bvs", 2, 2, "Relative">>,
    <<80, "Bvc", 2, 2, "Relative">>,
    <<176, "Bcs", 2, 2, "Relative">>,
    <<144, "Bcc", 2, 2, "Relative">>,
    <<240, "Beq", 2, 2, "Relative">>,
    <<208, "Bne", 2, 2, "Relative">>,
    <<96, "Rts", 1, 6, "Implied">>,
    <<72, "Pha", 1, 3, "Implied">>,
    <<8, "Php", 1, 3, "Implied">>,
    <<104, "Pla", 1, 4, "Implied">>,
    <<40, "Plp", 1, 4, "Implied">>,
    <<36, "Bit", 2, 3, "ZeroPage">>,
    <<44, "Bit", 3, 4, "Absolute">>}

TableCodes == {row[1] : row \in OpCodeRows}

\* The descriptor OpCode::new builds in the arm of `code`.
OpCodeOf(code) ==
    LET row == CHOOSE r \in OpCodeRows : r[1] = code
    IN [code |-> code, instruction |-> row[2], bytes |-> row[3],
        cycles |-> row[4], address_mode |-> row[5]]

from_byte(code) ==
    IF code \in TableCodes THEN Done(OpCodeOf(code)) ELSE Fail(OpcodeNotFound)

-----------------------------------------------------------------------------
(* The addressing-mode resolver.                                           *)

\* u16::from_le: the identity on a little-endian target, a byte swap on a
\* big-endian one.
from_le(value) ==
    IF build.big_endian THEN (value % 256) * 256 + (value \div 256) ELSE value

\* get_operand_address adding the index register of the zero page modes
\* without the 8-bit wrap.
get_operand_address_unwrapped(nes, mode) ==
    LET program_counter == nes.cpu.program_counter
    IN CASE mode = "Accumulator" -> Done(nes.cpu.accumulator)
         [] mode = "Immediate" -> Done(program_counter)
         [] mode = "ZeroPage" -> mem_read_8(nes, program_counter)
         [] mode = "ZeroPageX" ->
                Then(mem_read_8(nes, program_counter), LAMBDA position:
                    Done(position + nes.cpu.register_x))
         [] mode = "ZeroPageY" ->
                Then(mem_read_8(nes, program_counter), LAMBDA position:
                    Done(position + nes.cpu.register_y))
         [] mode = "Absolute" -> mem_read_16(nes, program_counter)
         [] mode = "AbsoluteX" ->
                Then(mem_read_16(nes, program_counter), LAMBDA position:
                    Done(Wrap16(position + nes.cpu.register_x)))
         [] mode = "AbsoluteY" ->
                Then(mem_read_16(nes, program_counter), LAMBDA position:
                    Done(Wrap16(position + nes.cpu.register_y)))
         [] mode = "Indirect" ->
                Then(mem_read_16(nes, program_counter), LAMBDA address:
                    Done(from_le(address)))
         [] mode = "IndexedIndirectX" ->
                Then(mem_read_8(nes, program_counter), LAMBDA start_address:
                    LET address == Wrap8(start_address + nes.cpu.register_x)
                    IN Then(mem_read_8(nes, address), LAMBDA low:
                        Then(mem_read_8(nes, Wrap16(address + 1)), LAMBDA high:
                            Done(high * 256 + low))))
         [] mode = "IndirectIndexedY" ->
                Then(mem_read_8(nes, program_counter), LAMBDA address:
                    Then(mem_read_8(nes, address), LAMBDA low:
                        Then(mem_read_8(nes, Wrap16(address + 1)), LAMBDA high:
                            Done(Wrap16(high * 256 + low + nes.cpu.register_y)))))
         [] OTHER -> Fail(ModeNotImplemented)

get_operand_address(nes, mode) ==
    LET program_counter == nes.cpu.program_counter
    IN CASE mode = "Accumulator" -> Done(nes.cpu.accumulator)
         [] mode = "Immediate" -> Done(program_counter)
         [] mode = "ZeroPage" -> mem_read_8(nes, program_counter)
         [] mode = "ZeroPageX" ->
                Then(mem_read_8(nes, program_counter), LAMBDA position:
                    Done(Wrap8(position + nes.cpu.register_x)))
         [] mode = "ZeroPageY" ->
                Then(mem_read_8(nes, program_counter), LAMBDA position:
                    Done(Wrap8(position + nes.cpu.register_y)))
         [] mode = "Absolute" -> mem_read_16(nes, program_counter)
         [] mode = "AbsoluteX" ->
                Then(mem_read_16(nes, program_counter), LAMBDA position:
                    Done(Wrap16(position + nes.cpu.register_x)))
         [] mode = "AbsoluteY" ->
                Then(mem_read_16(nes, program_counter), LAMBDA position:
                    Done(Wrap16(position + nes.cpu.register_y)))
         [] mode = "Indirect" ->
                Then(mem_read_16(nes, program_counter), LAMBDA address:
                    Done(from_le(address)))
         [] mode = "IndexedIndirectX" ->
                Then(mem_read_8(nes, program_counter), LAMBDA start_address:
                    LET address == Wrap8(start_address + nes.cpu.register_x)
                    IN Then(mem_read_8(nes, address), LAMBDA low:
                        Then(mem_read_8(nes, Wrap16(address + 1)), LAMBDA high:
                            Done(high * 256 + low))))
         [] mode = "IndirectIndexedY" ->
                Then(mem_read_8(nes, program_counter), LAMBDA address:
                    Then(mem_read_8(nes, address), LAMBDA low:
                        Then(mem_read_8(nes, Wrap16(address + 1)), LAMBDA high:
                            Done(Wrap16(high * 256 + low + nes.cpu.register_y)))))
         [] OTHER -> Fail(ModeNotImplemented)

-----------------------------------------------------------------------------
(* Instruction bodies, one operator per method of Nes.                     *)

\* The prelude shared by the bodies that read an operand.
Operand(nes, opcode) ==
    Then(get_operand_address(nes, opcode.address_mode), LAMBDA address:
        Then(mem_read_8(nes, address), LAMBDA value:
            Done([address |-> address, value |-> value])))

\* lda adjusting the loaded value when the decimal flag is set.
lda_decimal(nes, opcode) ==
    Try(nes, Operand(nes, opcode), LAMBDA operand:
        LET value == IF has_flag(nes, "Decimal")
                     THEN Wrap8(operand.value + 6)
                     ELSE operand.value
        IN update_zero_and_negative_flags([nes EXCEPT !.cpu.accumulator = value], value))

lda(nes, opcode) ==
    Try(nes, Operand(nes, opcode), LAMBDA operand:
        LET value == operand.value
        IN update_zero_and_negative_flags([nes EXCEPT !.cpu.accumulator = value], value))

\* ldx assigning the operand to A.
ldx_into_accumulator(nes, opcode) ==
    Try(nes, Operand(nes, opcode), LAMBDA operand:
        LET value == operand.value
        IN update_zero_and_negative_flags([nes EXCEPT !.cpu.accumulator = value], value))

ldx(nes, opcode) ==
    Try(nes, Operand(nes, opcode), LAMBDA operand:
        LET value == operand.value
        IN update_zero_and_negative_flags([nes EXCEPT !.cpu.register_x = value], value))

ldy(nes, opcode) ==
    Try(nes, Operand(nes, opcode), LAMBDA operand:
        LET value == operand.value
        IN update_zero_and_negative_flags([nes EXCEPT !.cpu.register_y = value], value))

\* sta updating Z and N from the stored value.
sta_with_flags(nes, opcode) ==
    Try(nes, get_operand_address(nes, opcode.address_mode), LAMBDA address:
        update_zero_and_negative_flags(
            mem_write_8(nes, address, nes.cpu.accumulator), nes.cpu.accumulator))

sta(nes, opcode) ==
    Try(nes, get_operand_address(nes, opcode.address_mode), LAMBDA address:
        mem_write_8(nes, address, nes.cpu.accumulator))

stx(nes, opcode) ==
    Try(nes, get_operand_address(nes, opcode.address_mode), LAMBDA address:
        mem_write_8(nes, address, nes.cpu.register_x))

sty(nes, opcode) ==
    Try(nes, get_operand_address(nes, opcode.address_mode), LAMBDA address:
        mem_write_8(nes, address, nes.cpu.register_y))

and(nes, opcode) ==
    Try(nes, Operand(nes, opcode), LAMBDA operand:
        LET address == operand.address
            value == operand.value
            result == BitAnd(nes.cpu.accumulator, value)
        IN update_zero_and_negative_flags([nes EXCEPT !.cpu.accumulator = result], result))

ora(nes, opcode) ==
    Try(nes, Operand(nes, opcode), LAMBDA operand:
        LET address == operand.address
            value == operand.value
            result == BitOr(nes.cpu.accumulator, value)
        IN update_zero_and_negative_flags([nes EXCEPT !.cpu.accumulator = result], result))

eor(nes, opcode) ==
    Try(nes, Operand(nes, opcode), LAMBDA operand:
        LET address == operand.address
            value == operand.value
            result == BitXor(nes.cpu.accumulator, value)
        IN update_zero_and_negative_flags([nes EXCEPT !.cpu.accumulator = result], result))

\* inc adding 2.
inc_by_two(nes, opcode) ==
    Try(nes, Operand(nes, opcode), LAMBDA operand:
        LET address == operand.address
            value == operand.value
            result == Wrap8(value + 2)
            nes1 == mem_write_8(nes, address, result)
        IN IF Ok(nes1) THEN update_zero_and_negative_flags(nes1, result) ELSE nes1)

inc(nes, opcode) ==
    Try(nes, Operand(nes, opcode), LAMBDA operand:
        LET address == operand.address
            value == operand.value
            result == Wrap8(value + 1)
            nes1 == mem_write_8(nes, address, result)
        IN IF Ok(nes1) THEN update_zero_and_negative_flags(nes1, result) ELSE nes1)

dec(nes, opcode) ==
    Try(nes, Operand(nes, opcode), LAMBDA operand:
        LET address == operand.address
            value == operand.value
            result == Wrap8(value + 255)
            nes1 == mem_write_8(nes, address, result)
        IN IF Ok(nes1) THEN update_zero_and_negative_flags(nes1, result) ELSE nes1)

\* cmp, cpx and cpy differ in the register they compare only.
Compare(nes, opcode, register) ==
    Try(nes, Operand(nes, opcode), LAMBDA operand:
        LET address == operand.address
            value == operand.value
            result == Wrap8(register + 256 - value)
            nes1 == update_flag(nes, "Carry", register >= value)
        IN update_zero_and_negative_flags(nes1, result))

cmp(nes, opcode) == Compare(nes, opcode, nes.cpu.accumulator)

cpx(nes, opcode) == Compare(nes, opcode, nes.cpu.register_x)

cpy(nes, opcode) == Compare(nes, opcode, nes.cpu.register_y)

lsr(nes, opcode) ==
    Try(nes, Operand(nes, opcode), LAMBDA operand:
        LET address == operand.address
            value == operand.value
            result == value \div 2
            nes1 == mem_write_8(nes, address, result)
            nes2 == update_flag(nes1, "Zero", value \div 128 = 0)
            nes3 == update_flag(nes2, "Negative", FALSE)
        IN IF Ok(nes1) THEN update_flag(nes3, "Carry", value % 2 = 1) ELSE nes1)

asl(nes, opcode) ==
    Try(nes, Operand(nes, opcode), LAMBDA operand:
        LET address == operand.address
            value == operand.value
            result == Wrap8(value * 2)
            nes1 == mem_write_8(nes, address, result)
            nes2 == update_flag(nes1, "Zero", value \div 128 = 0)
            nes3 == update_flag(nes2, "Negative", result \div 128 = 1)
        IN IF Ok(nes1) THEN update_flag(nes3, "Carry", value \div 128 = 1) ELSE nes1)

\* ror and rol compute `result` and never store it.
ror(nes, opcode) ==
    Try(nes, Operand(nes, opcode), LAMBDA operand:
        LET address == operand.address
            value == operand.value
            rotated == (value \div 2) + (value % 2) * 128
            nes1 == update_flag(nes, "Carry", value \div 128 = 1)
            result == IF has_flag(nes1, "Carry") THEN BitOr(rotated, 128) ELSE rotated
            nes2 == update_flag(nes1, "Zero", value \div 128 = 0)
        IN update_flag(nes2, "Negative", result \div 128 = 1))

rol(nes, opcode) ==
    Try(nes, Operand(nes, opcode), LAMBDA operand:
        LET address == operand.address
            value == operand.value
            rotated == Wrap8(value * 2) + (value \div 128)
            nes1 == update_flag(nes, "Carry", value \div 128 = 1)
            result == IF has_flag(nes1, "Carry") THEN BitOr(rotated, 1) ELSE rotated
            nes2 == update_flag(nes1, "Zero", value \div 128 = 0)
        IN update_flag(nes2, "Negative", result \div 128 = 1))

jmp(nes, opcode) ==
    Try(nes, get_operand_address(nes, opcode.address_mode), LAMBDA address:
        Try(nes, mem_read_16(nes, address), LAMBDA value:
            [nes EXCEPT !.cpu.program_counter = value]))

sec(nes) == enable_flag(nes, "Carry")
sed(nes) == enable_flag(nes, "Decimal")
sei(nes) == enable_flag(nes, "Interrupt")
clc(nes) == disable_flag(nes, "Carry")
cld(nes) == disable_flag(nes, "Decimal")
cli(nes) == disable_flag(nes, "Interrupt")
clv(nes) == disable_flag(nes, "Overflow")

bmi(nes, opcode) == IF has_flag(nes, "Negative") THEN jmp(nes, opcode) ELSE nes
bpl(nes, opcode) == IF ~has_flag(nes, "Negative") THEN jmp(nes, opcode) ELSE nes
bvs(nes, opcode) == IF has_flag(nes, "Overflow") THEN jmp(nes, opcode) ELSE nes
bvc(nes, opcode) == IF ~has_flag(nes, "Overflow") THEN jmp(nes, opcode) ELSE nes
bcs(nes, opcode) == IF has_flag(nes, "Carry") THEN jmp(nes, opcode) ELSE nes
bcc(nes, opcode) == IF ~has_flag(nes, "Carry") THEN jmp(nes, opcode) ELSE nes
beq(nes, opcode) == IF has_flag(nes, "Zero") THEN jmp(nes, opcode) ELSE nes
bne(nes, opcode) == IF ~has_flag(nes, "Zero") THEN jmp(nes, opcode) ELSE nes

-----------------------------------------------------------------------------
(* The dispatch loop of run().                                             *)

\* The match of run(): every instruction without an arm of its own falls to
\* the last arm, todo!().
Execute(nes, opcode) ==
    LET i == opcode.instruction
    IN CASE i = "And" -> and(nes, opcode)
         [] i = "Asl" -> asl(nes, opcode)
         [] i = "Cmp" -> cmp(nes, opcode)
         [] i = "Cpx" -> cpx(nes, opcode)
         [] i = "Cpy" -> cpy(nes, opcode)
         [] i = "Dec" -> dec(nes, opcode)
         [] i = "Eor" -> eor(nes, opcode)
         [] i = "Inc" -> inc(nes, opcode)
         [] i = "Jmp" -> jmp(nes, opcode)
         [] i = "Lda" -> lda(nes, opcode)
         [] i = "Ldx" -> ldx(nes, opcode)
         [] i = "Ldy" -> ldy(nes, opcode)
         [] i = "Lsr" -> lsr(nes, opcode)
         [] i = "Ora" -> ora(nes, opcode)
         [] i = "Rol" -> rol(nes, opcode)
         [] i = "Ror" -> ror(nes, opcode)
         [] i = "Sta" -> sta(nes, opcode)
         [] i = "Stx" -> stx(nes, opcode)
         [] i = "Sty" -> sty(nes, opcode)
         [] i = "Sec" -> sec(nes)
         [] i = "Sed" -> sed(nes)
         [] i = "Sei" -> sei(nes)
         [] i = "Clc" -> clc(nes)
         [] i = "Cld" -> cld(nes)
         [] i = "Cli" -> cli(nes)
         [] i = "Clv" -> clv(nes)
         [] i = "Bmi" -> bmi(nes, opcode)
         [] i = "Bpl" -> bpl(nes, opcode)
         [] i = "Bvs" -> bvs(nes, opcode)
         [] i = "Bvc" -> bvc(nes, opcode)
         [] i = "Bcs" -> bcs(nes, opcode)
         [] i = "Bcc" -> bcc(nes, opcode)
         [] i = "Beq" -> beq(nes, opcode)
         [] i = "Bne" -> bne(nes, opcode)
         [] OTHER -> Panic(nes, NotImplemented)

\* update_pc adding the whole instruction length, opcode byte included.
update_pc_whole_length(nes, current_pc, bytes) ==
    IF current_pc = nes.cpu.program_counter
    THEN Try(nes, AddU16(nes.cpu.program_counter, bytes), LAMBDA sum:
             [nes EXCEPT !.cpu.program_counter = sum])
    ELSE nes

update_pc(nes, current_pc, bytes) ==
    IF current_pc = nes.cpu.program_counter
    THEN Try(nes, AddU16(nes.cpu.program_counter, bytes - 1), LAMBDA sum:
             [nes EXCEPT !.cpu.program_counter = sum])
    ELSE nes

\* One iteration of the loop of run(): fetch, decode, execute, update_pc.
\* `returned` is set when the iteration leaves the loop through `return`.
run_iteration(nes) ==
    Try(nes, mem_read_8(nes, nes.cpu.program_counter), LAMBDA code:
        Try(nes, AddU16(nes.cpu.program_counter, 1), LAMBDA current_pc:
            LET nes1 == [nes EXCEPT !.cpu.program_counter = current_pc,
                                    !.code = code]
            IN Try(nes1, from_byte(code), LAMBDA opcode:
                   IF opcode.instruction = "Brk"
                   THEN [nes1 EXCEPT !.returned = TRUE]
                   ELSE LET nes2 == Execute(nes1, opcode)
                        IN IF Ok(nes2)
                           THEN update_pc(nes2, current_pc, opcode.bytes)
                           ELSE nes2)))

reset(nes) ==
    LET nes1 == [nes EXCEPT !.cpu.accumulator = 0,
                            !.cpu.register_x = 0,
                            !.cpu.register_y = 0,
                            !.cpu.status = 0,
                            !.cpu.stack_pointer = 253]
    IN Try(nes1, mem_read_16(nes1, 65532), LAMBDA vector:
           [nes1 EXCEPT !.cpu.program_counter = vector])

set_program_counter(nes, address) ==
    [nes EXCEPT !.cpu.program_counter = address]

RECURSIVE load_from(_, _, _)
\* program_mem.iter().enumerate().for_each(..), from element `index` on.
load_from(nes, program_mem, index) ==
    IF index >= Len(program_mem) \/ ~Ok(nes)
    THEN nes
    ELSE Try(nes, AddU16(1536, index % 65536), LAMBDA address:
             load_from(mem_write_8(nes, address, program_mem[index + 1]),
                       program_mem, index + 1))

\* load_instructions leaving out the first byte of the program.
load_instructions_skip_first(nes, program_mem) == load_from(nes, program_mem, 1)

load_instructions(nes, program_mem) == load_from(nes, program_mem, 0)

\* self.memory[0x8000..0x8000 + data.len()].copy_from_slice(data): the slice
\* is taken first, and taking it panics when its end is past the array.
load_rom_from_bytes(nes, data) ==
    IF 32768 + Len(data) > MemoryLen
    THEN Panic(nes, RangeOutOfBounds)
    ELSE LET rom == 32768..(32768 + Len(data) - 1)
             kept == (DOMAIN nes.memory) \ rom
             written == {a \in rom : data[a - 32768 + 1] # 0}
         IN [nes EXCEPT !.memory =
                 [a \in kept \cup written |->
                     IF a \in rom THEN data[a - 32768 + 1] ELSE nes.memory[a]]]

\* A file as load_rom_from_file meets it: absent, failing while it is read,
\* or giving its bytes.  The first 0x8000 bytes are handed on.
load_rom_from_file(nes, file) ==
    CASE file.state = "missing" -> Panic(nes, FileNotFound)
      [] file.state = "unreadable" -> Panic(nes, ByteStreamError)
      [] OTHER ->
             LET taken == IF Len(file.bytes) > 32768 THEN 32768 ELSE Len(file.bytes)
             IN load_rom_from_bytes(nes, SubSeq(file.bytes, 1, taken))

\* Cpu::reset clears A, X, Y and the status and leaves SP and PC.
Cpu_reset(nes) ==
    [nes EXCEPT !.cpu.accumulator = 0,
                !.cpu.register_x = 0,
                !.cpu.register_y = 0,
                !.cpu.status = 0]

Cpu_default ==
    [accumulator |-> 0, register_x |-> 0, register_y |-> 0,
     program_counter |-> 1536, status |-> 36, stack_pointer |-> 253]

Cpu_new(accumulator, register_x, register_y, program_counter, status, stack_pointer) ==
    [accumulator |-> accumulator, register_x |-> register_x, register_y |-> register_y,
     program_counter |-> program_counter, status |-> status,
     stack_pointer |-> stack_pointer]

-----------------------------------------------------------------------------
(* The state machine.  `Self` is `self` at the start of a call; Commit     *)
(* installs what the call left behind and records what it did.             *)

Self ==
    [cpu |-> cpu, memory |-> memory, panic |-> NoPanic,
     zn |-> -1,         \* the last value given to update_zero_and_negative_flags
     stack |-> <<>>,    \* the addresses of the stack accesses, in order
     code |-> -1,       \* the byte fetched as opcode
     ret |-> -1,        \* the value returned to the caller
     returned |-> FALSE]

Observed(nes, op, flag, arg1, arg2) ==
    [op |-> op, flag |-> flag, arg1 |-> arg1, arg2 |-> arg2,
     pre |-> cpu, pre_memory |-> memory, zn |-> nes.zn, stack |-> nes.stack, code |-> nes.code,
     ret |-> nes.ret,
     before_code |-> IF op = "step" THEN last.code ELSE -1,
     before_pre |-> IF op = "step" THEN last.pre ELSE cpu]

Commit(nes, next_phase, observed) ==
    /\ cpu' = nes.cpu
    /\ memory' = nes.memory
    /\ panic' = nes.panic
    /\ phase' = IF Ok(nes) THEN next_phase ELSE "panicked"
    /\ last' = observed
    /\ UNCHANGED build

NoCall ==
    [op |-> "new", flag |-> "", arg1 |-> -1, arg2 |-> -1, pre |-> Cpu_default,
     pre_memory |-> Nes_default_memory,
     zn |-> -1, stack |-> <<>>, code |-> -1, ret |-> -1,
     before_code |-> -1, before_pre |-> Cpu_default]

-----------------------------------------------------------------------------
(* Bounds of the exploration and the inputs the callers draw from.         *)

MaxCalls == 2   \* API calls made on one machine
MaxSteps == 8   \* iterations of the loop of run() that are followed

ByteInputs == {0, 1, 128}
AddressInputs == {255, 65532, 65534, 65535}
WordInputs == {1536, 32543}
UpdatedFlagInputs == {"Carry", "Zero"}
StatusInputs == {0, 36, 255}
StackPointerInputs == {0, 253, 255}

\* Lengths of the ROM data: a few bytes, the TEST_ROM_SIZE of the test, the
\* whole 32 KiB, and one byte more.
RomLengths == {3, 1792, 32768, 32769}
RomInputs == {[i \in 1..n |-> 8] : n \in RomLengths}

\* Files: none, one that fails while read, the bytes 01 02 03, and files of
\* 0x0700, 0x8000 and 40000 bytes.
FileLengths == {1792, 32768, 40000}
FileInputs ==
    {[state |-> "missing", bytes |-> <<>>],
     [state |-> "unreadable", bytes |-> <<>>],
     [state |-> "readable", bytes |-> <<1, 2, 3>>]}
        \cup {[state |-> "readable", bytes |-> [i \in 1..n |-> 8]] : n \in FileLengths}

ProgramCounterInputs == {41088}

DebugBuild == [overflow_checks |-> TRUE, big_endian |-> FALSE]
Builds == [overflow_checks : BOOLEAN, big_endian : BOOLEAN]

-----------------------------------------------------------------------------
(* Calls made directly on a machine built by Nes::new(Cpu::new(..)).       *)

Idle == phase = "idle" /\ calls < MaxCalls

Call(nes, observed) ==
    /\ Commit(nes, "idle", observed)
    /\ calls' = calls + 1
    /\ UNCHANGED steps

Reset ==
    /\ Idle
    /\ LET nes == reset(Self)
       IN Call(nes, Observed(nes, "reset", "", -1, -1))

MemRead8 ==
    /\ Idle
    /\ \E address \in AddressInputs :
        LET nes == Try(Self, mem_read_8(Self, address), LAMBDA data:
                       [Self EXCEPT !.ret = data])
        IN Call(nes, Observed(nes, "mem_read_8", "", address, -1))

MemWrite8 ==
    /\ Idle
    /\ \E address \in AddressInputs, data \in {1, 128} :
        LET nes == mem_write_8(Self, address, data)
        IN Call(nes, Observed(nes, "mem_write_8", "", address, data))

MemRead16 ==
    /\ Idle
    /\ \E address \in AddressInputs :
        LET nes == Try(Self, mem_read_16(Self, address), LAMBDA data:
                       [Self EXCEPT !.ret = data])
        IN Call(nes, Observed(nes, "mem_read_16", "", address, -1))

MemWrite16 ==
    /\ Idle
    /\ \E address \in AddressInputs, data \in WordInputs :
        LET nes == mem_write_16(Self, address, data)
        IN Call(nes, Observed(nes, "mem_write_16", "", address, data))

PushStack ==
    /\ Idle
    /\ \E data \in {1, 128} :
        LET nes == push_stack(Self, data)
        IN Call(nes, Observed(nes, "push_stack", "", data, -1))

PopStack ==
    /\ Idle
    /\ LET nes == pop_stack(Self)
       IN Call(nes, Observed(nes, "pop_stack", "", -1, -1))

EnableFlag ==
    /\ Idle
    /\ \E flag \in StatusFlag :
        LET nes == enable_flag(Self, flag)
        IN Call(nes, Observed(nes, "enable_flag", flag, -1, -1))

DisableFlag ==
    /\ Idle
    /\ \E flag \in StatusFlag :
        LET nes == disable_flag(Self, flag)
        IN Call(nes, Observed(nes, "disable_flag", flag, -1, -1))

UpdateFlag ==
    /\ Idle
    /\ \E flag \in UpdatedFlagInputs, is_enable \in BOOLEAN :
        LET nes == update_flag(Self, flag, is_enable)
        IN Call(nes, Observed(nes, "update_flag", flag, IF is_enable THEN 1 ELSE 0, -1))

UpdateZeroAndNegativeFlags ==
    /\ Idle
    /\ \E value \in ByteInputs :
        LET nes == update_zero_and_negative_flags(Self, value)
        IN Call(nes, Observed(nes, "update_zero_and_negative_flags", "", value, -1))

LoadRomFromBytes ==
    /\ Idle
    /\ \E data \in RomInputs :
        LET nes == load_rom_from_bytes(Self, data)
        IN Call(nes, Observed(nes, "load_rom_from_bytes", "", Len(data), data))

LoadRomFromFile ==
    /\ Idle
    /\ \E file \in FileInputs :
        LET nes == load_rom_from_file(Self, file)
        IN Call(nes, Observed(nes, "load_rom_from_file", file.state,
                              Len(file.bytes), file.bytes))

CpuReset ==
    /\ Idle
    /\ LET nes == Cpu_reset(Self)
       IN Call(nes, Observed(nes, "cpu_reset", "", -1, -1))

SetProgramCounter ==
    /\ Idle
    /\ \E address \in ProgramCounterInputs :
        LET nes == set_program_counter(Self, address)
        IN Call(nes, Observed(nes, "set_program_counter", "", address, -1))

Init ==
    /\ cpu \in {Cpu_new(a, 0, 0, 1536, p, sp) :
                    a \in {128}, p \in StatusInputs, sp \in StackPointerInputs}
    /\ memory = Nes_default_memory
    /\ build = DebugBuild
    /\ phase = "idle"
    /\ panic = NoPanic
    /\ calls = 0
    /\ steps = 0
    /\ last = NoCall

Next ==
    \/ Reset
    \/ MemRead8
    \/ MemWrite8
    \/ MemRead16
    \/ MemWrite16
    \/ PushStack
    \/ PopStack
    \/ EnableFlag
    \/ DisableFlag
    \/ UpdateFlag
    \/ UpdateZeroAndNegativeFlags
    \/ LoadRomFromBytes
    \/ LoadRomFromFile
    \/ CpuReset
    \/ SetProgramCounter

Spec == Init /\ [][Next]_vars

-----------------------------------------------------------------------------
(* Running a program: the memory is prepared (load, load_instructions),    *)
(* run_with_reset_pc resets the machine and enters run(), and every        *)
(* iteration of its loop is one Step.                                      *)

load(nes, data) == [nes EXCEPT !.memory = data]

\* Data in the zero page: $80..$82 = F1 F2 F3 and a byte at $FF.
ImageZeroPage == (128 :> 241) @@ (129 :> 242) @@ (130 :> 243) @@ (255 :> 1)

\* The reset vector names $FFFE, where a BMI sits: its operand byte is past
\* the end of `memory`.
ImageTopBmi == (65532 :> 254) @@ (65533 :> 255) @@ (65534 :> 48)

\* The reset vector names $FFFE, where a CLC sits.
ImageTopClc == (65532 :> 254) @@ (65533 :> 255) @@ (65534 :> 24)

\* A pointer at $02FF, the last byte of its page: the byte after it in memory
\* is at $0300, the first byte of its own page at $0200.
ImageIndirect == (767 :> 52) @@ (512 :> 18) @@ (768 :> 86)

Images == {ImageZeroPage, ImageTopBmi, ImageTopClc, ImageIndirect}

OperandInputs == {0, 128, 255}

\* Bytes that from_byte has no arm for: NOP, RTI, and two unofficial ones.
UnsupportedInputs == {234, 64, 2, 255}

\* One instruction of the table with its operand bytes.
Encodings(code) ==
    LET bytes == OpCodeOf(code).bytes
    IN CASE bytes = 1 -> {<<code>>}
         [] bytes = 2 -> {<<code, operand>> : operand \in OperandInputs}
         [] bytes = 3 -> {<<code, low, high>> : low \in OperandInputs, high \in OperandInputs}

\* LDA $80; STA $20; LDX $81; STX $21; LDY $82; STY $22
LoadStoreChain == <<165, 128, 133, 32, 166, 129, 134, 33, 164, 130, 132, 34>>

\* Programs of several instructions: the scenarios of the tests.
Scenarios ==
    { <<169, 128, 133, 16, 0>>,                                   \* LDA #$80; STA $10; BRK
      LoadStoreChain,
      <<169, 0, 240, 2, 169, 255, 0, 169, 66, 0>>,                \* LDA #0; BEQ +2; ..
      <<32, 9, 6, 169, 17, 0, 169, 34, 96>>,                      \* JSR $0609; ..; RTS
      <<72, 104, 0>>,                                             \* PHA; PLA; BRK
      <<108, 255, 2>>,                                            \* JMP ($02FF)
      <<169, 80, 105, 80, 0>>,                                    \* LDA #$50; ADC #$50
      <<248, 169, 128, 216, 0>>,                                  \* SED; LDA #$80; CLD
      <<169, 129, 10, 0>>,                                        \* LDA #$81; ASL A
      <<169, 1, 74, 0>>,                                          \* LDA #1; LSR A
      <<56, 38, 128, 0>>,                                         \* SEC; ROL $80
      <<169, 66, 162, 128, 149, 255, 181, 255, 0>>,               \* LDA #$42; LDX #$80; STA $FF,X; LDA $FF,X
      <<162, 66, 160, 128, 150, 255, 0>>,                         \* LDX #$42; LDY #$80; STX $FF,Y
      <<169, 2, 133, 0, 161, 255, 177, 255, 0>>,                  \* LDA #2; STA $00; LDA ($FF,X); LDA ($FF),Y
      <<76, 1, 6>>,                                               \* JMP $0601
      <<32, 3, 6, 96>>,                                           \* JSR $0603; RTS
      <<56, 169, 1, 0, 169, 2>>,                                  \* SEC; LDA #1; BRK; LDA #2
      <<162, 128, 134, 255, 230, 255, 0>> }                       \* LDX #$80; STX $FF; INC $FF

Programs ==
    UNION {Encodings(code) : code \in TableCodes}
        \cup {<<code>> : code \in UnsupportedInputs}
        \cup Scenarios

Load ==
    /\ phase = "setup"
    /\ calls = 0
    /\ \E data \in Images :
        LET nes == load(Self, data)
        IN Commit(nes, "setup", Observed(nes, "load", "", -1, -1))
    /\ calls' = calls + 1
    /\ UNCHANGED steps

LoadInstructions ==
    /\ phase = "setup"
    /\ \E program_mem \in Programs :
        LET nes == load_instructions(Self, program_mem)
        IN Commit(nes, "loaded", Observed(nes, "load_instructions", "", Len(program_mem), program_mem))
    /\ calls' = calls + 1
    /\ UNCHANGED steps

RunWithResetPc ==
    /\ \/ phase = "loaded"
       \/ phase = "setup" /\ calls = 1
    /\ \E reset_program_counter \in BOOLEAN :
        LET nes1 == reset(Self)
            nes == IF Ok(nes1) /\ reset_program_counter
                   THEN [nes1 EXCEPT !.cpu.program_counter = 1536]
                   ELSE nes1
        IN Commit(nes, "running",
                  Observed(nes, "run_with_reset_pc", "",
                           IF reset_program_counter THEN 1 ELSE 0, -1))
    /\ calls' = calls + 1
    /\ UNCHANGED steps

Step ==
    /\ phase = "running"
    /\ steps < MaxSteps
    /\ LET nes == run_iteration(Self)
       IN Commit(nes, IF nes.returned THEN "returned" ELSE "running",
                 Observed(nes, "step", "", -1, -1))
    /\ steps' = steps + 1
    /\ UNCHANGED calls

InitRun ==
    /\ cpu = Cpu_default
    /\ memory = Nes_default_memory
    /\ build \in Builds
    /\ phase = "setup"
    /\ panic = NoPanic
    /\ calls = 0
    /\ steps = 0
    /\ last = NoCall

NextRun ==
    \/ Load
    \/ LoadInstructions
    \/ RunWithResetPc
    \/ Step

SpecRun == InitRun /\ [][NextRun]_vars

-----------------------------------------------------------------------------
(* Properties.                                                             *)

LastStep == last.op = "step"
Decoded == LastStep /\ last.code \in TableCodes
Completed == LastStep /\ phase = "running"

Flag(status, flag) == StatusHas(status, flag)

OtherFlagsKept(flag) ==
    \A other \in StatusFlag \ {flag} :
        Flag(cpu.status, other) <=> Flag(last.pre.status, other)

BranchTaken(status, instruction) ==
    \/ instruction = "Bpl" /\ ~Flag(status, "Negative")
    \/ instruction = "Bmi" /\ Flag(status, "Negative")
    \/ instruction = "Bvc" /\ ~Flag(status, "Overflow")
    \/ instruction = "Bvs" /\ Flag(status, "Overflow")
    \/ instruction = "Bcc" /\ ~Flag(status, "Carry")
    \/ instruction = "Bcs" /\ Flag(status, "Carry")
    \/ instruction = "Bne" /\ ~Flag(status, "Zero")
    \/ instruction = "Beq" /\ Flag(status, "Zero")

Redirects(status, instruction) ==
    \/ instruction \in {"Jmp", "Jsr", "Rts", "Brk"}
    \/ BranchTaken(status, instruction)

\* `self` when the method of the last fetched instruction is entered: the
\* registers and the memory before the step, PC past the opcode byte.
Before ==
    [Self EXCEPT !.cpu = [last.pre EXCEPT !.program_counter = Wrap16(@ + 1)],
                 !.memory = last.pre_memory]

LastInstruction == IF Decoded THEN OpCodeOf(last.code).instruction ELSE ""

LastMode == IF Decoded THEN OpCodeOf(last.code).address_mode ELSE ""

\* The 16-bit little-endian operand of the last fetched instruction.
WordOperand ==
    Byte(last.pre_memory, Wrap16(last.pre.program_counter + 1))
        + 256 * Byte(last.pre_memory, Wrap16(last.pre.program_counter + 2))

SignExtend(offset) == IF offset >= 128 THEN offset - 256 ELSE offset

\* C1: run() stops at the first BRK it fetches and at no other instruction:
\* a step that fetched BRK leaves the loop, no step follows a step that
\* fetched BRK, and after every other instruction of the table the loop is
\* still running, ready to fetch the next opcode.
C1_RunStopsAtBrkOnly ==
    /\ LastStep => last.before_code # 0
    /\ Decoded /\ last.code = 0 => phase = "returned"
    /\ Decoded /\ last.code # 0 => phase = "running"

\* C2: execution ends in exactly two ways, by BRK or by the error for a byte
\* outside the opcode table; a step whose opcode byte is in the table never
\* aborts, whatever the registers and the memory hold.
C2_EndsByBrkOrUnsupportedOnly ==
    /\ LastStep /\ phase \in {"returned", "panicked"} =>
           \/ phase = "returned" /\ last.code = 0
           \/ panic = OpcodeNotFound /\ last.code \in (0..255) \ TableCodes
    /\ Decoded => panic = NoPanic

\* C3: after an instruction whose result went through
\* update_zero_and_negative_flags, Z is set iff that result is 0 and N is set
\* iff bit 7 of that result is 1, whatever the flags were before.
C3_ZeroNegativeFollowResult ==
    LastStep /\ last.zn # -1 /\ panic = NoPanic =>
        /\ Flag(cpu.status, "Zero") <=> last.zn = 0
        /\ Flag(cpu.status, "Negative") <=> Bit(last.zn, 7) = 1

\* C4: after reset(), from any prior state, A = X = Y = 0, SP = 0xFD, P has
\* I and U set, and PC is the little-endian word at 0xFFFC/0xFFFD.
C4_ResetState ==
    last.op = "reset" /\ panic = NoPanic =>
        /\ cpu.accumulator = 0
        /\ cpu.register_x = 0
        /\ cpu.register_y = 0
        /\ cpu.stack_pointer = 253
        /\ Flag(cpu.status, "Interrupt")
        /\ Flag(cpu.status, "Constant")
        /\ cpu.program_counter = Byte(memory, 65532) + 256 * Byte(memory, 65533)

\* C5: for every flag and every starting status byte, enable_flag (or
\* update_flag with true) leaves the flag set, disable_flag (or update_flag
\* with false) leaves it clear, and every other bit of the status is kept.
C5_FlagSetAndClear ==
    /\ last.op = "enable_flag" \/ (last.op = "update_flag" /\ last.arg1 = 1) =>
           Flag(cpu.status, last.flag) /\ OtherFlagsKept(last.flag)
    /\ last.op = "disable_flag" \/ (last.op = "update_flag" /\ last.arg1 = 0) =>
           ~Flag(cpu.status, last.flag) /\ OtherFlagsKept(last.flag)

\* C6: after every executed instruction that does not redirect the program
\* counter (not a jump, a taken branch, JSR, RTS or BRK), PC is the address
\* of the opcode byte plus the byte length of its descriptor (PC being a
\* 16-bit register, modulo 65536).
C6_PcAdvancesByLength ==
    Completed /\ Decoded
        /\ ~Redirects(last.pre.status, OpCodeOf(last.code).instruction) =>
        cpu.program_counter =
            (last.pre.program_counter + OpCodeOf(last.code).bytes) % 65536

\* The three-byte STA at $0600 has been executed and PC is $0603.
C6_Witness ==
    /\ Completed
    /\ last.code = 141
    /\ cpu.program_counter = last.pre.program_counter + 3
    /\ last.pre.program_counter = 1536

\* C7: mem_read_8 and mem_write_8 succeed for every 16-bit address, 0xFFFF
\* included, so the 16-bit read of the BRK/IRQ vector at 0xFFFE/0xFFFF does
\* not run out of bounds.
C7_MemoryAccessTotal ==
    /\ last.op \in {"mem_read_8", "mem_write_8"} => panic = NoPanic
    /\ last.op = "mem_read_16" /\ last.arg1 = 65534 => panic = NoPanic

\* C8: mem_write_16(a, v) stores the low byte of v at a and the high byte at
\* (a + 1) mod 65536, and mem_read_16(a) then returns v, for every a and v.
C8_Write16ThenRead16 ==
    last.op = "mem_write_16" =>
        /\ panic = NoPanic
        /\ Byte(memory, last.arg1) = last.arg2 % 256
        /\ Byte(memory, (last.arg1 + 1) % 65536) = last.arg2 \div 256
        /\ mem_read_16(Self, last.arg1) = Done(last.arg2)

\* C9: push_stack(d) writes d at 0x0100|SP and then sets SP to (SP-1) mod 256;
\* pop_stack sets SP to (SP+1) mod 256 and then returns the byte at 0x0100|SP;
\* every stack access lies in 0x0100..0x01FF.
C9_StackDiscipline ==
    /\ last.op = "push_stack" =>
           /\ panic = NoPanic
           /\ last.stack = <<BitOr(256, last.pre.stack_pointer)>>
           /\ Byte(memory, BitOr(256, last.pre.stack_pointer)) = last.arg1
           /\ cpu.stack_pointer = (last.pre.stack_pointer - 1) % 256
    /\ last.op = "pop_stack" =>
           /\ panic = NoPanic
           /\ cpu.stack_pointer = (last.pre.stack_pointer + 1) % 256
           /\ last.stack = <<BitOr(256, cpu.stack_pointer)>>
           /\ last.ret = Byte(memory, BitOr(256, cpu.stack_pointer))
    /\ \A i \in DOMAIN last.stack : last.stack[i] \in 256..511

\* A push at SP = 0 wrapped SP to 0xFF, and the pop that followed wrapped it
\* back to 0 and returned the pushed byte from 0x0100.
C9_Witness ==
    /\ last.op = "pop_stack"
    /\ last.pre.stack_pointer = 255
    /\ cpu.stack_pointer = 0
    /\ last.stack = <<256>>
    /\ last.ret = 128

\* C10: PHA followed immediately by PLA from a state S leaves A and SP as in
\* S, and memory at 0x0100|SP_pre holds the pushed value of A.
C10_PhaPlaRoundTrip ==
    /\ LastStep /\ last.code = 72 =>
           /\ phase = "running"
           /\ cpu.stack_pointer = (last.pre.stack_pointer - 1) % 256
           /\ Byte(memory, BitOr(256, last.pre.stack_pointer)) = last.pre.accumulator
    /\ LastStep /\ last.code = 104 /\ last.before_code = 72 =>
           /\ phase = "running"
           /\ cpu.accumulator = last.before_pre.accumulator
           /\ cpu.stack_pointer = last.before_pre.stack_pointer
           /\ Byte(memory, BitOr(256, last.before_pre.stack_pointer))
                  = last.before_pre.accumulator


\* C11: JSR addr sets PC to addr with SP lowered by the two bytes of the
\* return address and the loop goes on; the RTS that matches it (here: the
\* RTS executed right after the JSR) leaves PC at the byte following the
\* 3-byte JSR and SP as it was before the JSR.
C11_JsrRtsReturns ==
    /\ LastStep /\ last.code = 32 =>
           /\ phase = "running"
           /\ cpu.program_counter = WordOperand
           /\ cpu.stack_pointer = (last.pre.stack_pointer - 2) % 256
    /\ LastStep /\ last.code = 96 /\ last.before_code = 32 =>
           /\ phase = "running"
           /\ cpu.program_counter = (last.before_pre.program_counter + 3) % 65536
           /\ cpu.stack_pointer = last.before_pre.stack_pointer

\* C12: a step that fetched BRK pushes PC+1 (PC past the opcode byte), high
\* byte first, then P with B and U set, sets I, loads PC from the word at
\* 0xFFFE, and only then leaves the loop.
C12_BrkPushesAndVectors ==
    LastStep /\ last.code = 0 =>
        LET sp == last.pre.stack_pointer
            pushed_pc == (last.pre.program_counter + 2) % 65536
        IN /\ phase = "returned"
           /\ Byte(memory, 256 + sp) = pushed_pc \div 256
           /\ Byte(memory, 256 + ((sp - 1) % 256)) = pushed_pc % 256
           /\ Byte(memory, 256 + ((sp - 2) % 256)) = BitOr(last.pre.status, 48)
           /\ cpu.stack_pointer = (sp - 3) % 256
           /\ Flag(cpu.status, "Interrupt")
           /\ cpu.program_counter
                  = Byte(memory, 65534) + 256 * Byte(memory, 65535)

\* C13: a step that fetched a byte outside the opcode table ends run() by
\* returning an error to its caller (no abort), the registers and the memory
\* being those before the step except for PC.
C13_UnsupportedOpcodeError ==
    LastStep /\ last.code \in (0..255) \ TableCodes =>
        /\ panic = NoPanic
        /\ phase = "returned"
        /\ memory = last.pre_memory
        /\ [cpu EXCEPT !.program_counter = 0]
               = [last.pre EXCEPT !.program_counter = 0]

\* C14: from_byte has a descriptor for each of the 151 official opcodes, NOP
\* (0xEA) and RTI (0x40) included, and a step that fetched NOP changes
\* nothing but PC, which advances by one.
C14_TableCoversOfficialOpcodes ==
    /\ LastStep /\ last.code = 234 =>
           /\ phase = "running"
           /\ memory = last.pre_memory
           /\ cpu = [last.pre EXCEPT !.program_counter = (@ + 1) % 65536]
    /\ LastStep /\ last.code \in {234, 64} =>
           /\ panic # OpcodeNotFound
           /\ last.code \in TableCodes
           /\ Cardinality(TableCodes) = 151

\* C15: after LDA, LDX or LDY in any of its addressing modes the destination
\* register holds the byte at the resolved effective address, the memory is
\* as before, and the other two of A, X, Y are as before.
C15_LoadsAssignOperand ==
    Completed /\ LastInstruction \in {"Lda", "Ldx", "Ldy"} =>
        LET address == get_operand_address(Before, LastMode).value
            value == Byte(last.pre_memory, address)
        IN /\ memory = last.pre_memory
           /\ cpu.accumulator =
                  IF LastInstruction = "Lda" THEN value ELSE last.pre.accumulator
           /\ cpu.register_x =
                  IF LastInstruction = "Ldx" THEN value ELSE last.pre.register_x
           /\ cpu.register_y =
                  IF LastInstruction = "Ldy" THEN value ELSE last.pre.register_y

\* LDX $81 of the load/store chain has put $F2 in X with A = $F1 and Y = 0
\* untouched.
C15_Witness ==
    /\ Completed
    /\ last.code = 166
    /\ last.pre.register_x = 0
    /\ cpu.register_x = 242
    /\ cpu.accumulator = 241
    /\ cpu.register_y = 0

\* The load/store chain has run from $0600 to its last instruction.
ChainDone ==
    /\ Completed
    /\ last.code = 132
    /\ last.pre.program_counter = 1536 + Len(LoadStoreChain) - 2
    /\ \A i \in DOMAIN LoadStoreChain :
           Byte(last.pre_memory, 1535 + i) = LoadStoreChain[i]

\* C16: STA, STX and STY write A, X or Y to the resolved effective address
\* and change nothing else: P, A, X, Y, SP and every other memory byte are as
\* before.  Hence after the load/store chain the bytes at $20, $21, $22 are
\* those at $80, $81, $82.
C16_StoresWriteRegisterOnly ==
    /\ Completed /\ LastInstruction \in {"Sta", "Stx", "Sty"} =>
           LET address == get_operand_address(Before, LastMode).value
               value == CASE LastInstruction = "Sta" -> last.pre.accumulator
                          [] LastInstruction = "Stx" -> last.pre.register_x
                          [] LastInstruction = "Sty" -> last.pre.register_y
           IN /\ memory = Store(last.pre_memory, address, value)
              /\ cpu = [last.pre EXCEPT !.program_counter = cpu.program_counter]
    /\ ChainDone =>
           /\ Byte(memory, 32) = Byte(memory, 128)
           /\ Byte(memory, 33) = Byte(memory, 129)
           /\ Byte(memory, 34) = Byte(memory, 130)

\* The chain has copied $F1, $F2, $F3 from $80..$82 to $20..$22.
C16_Witness ==
    /\ ChainDone
    /\ Byte(memory, 32) = 241
    /\ Byte(memory, 33) = 242
    /\ Byte(memory, 34) = 243

\* C17: after CMP, CPX or CPY with register value reg and operand M, C is set
\* iff reg >= M, Z is set iff reg = M, and N is bit 7 of (reg - M) mod 256,
\* whatever the status was before.
C17_CompareFlags ==
    Completed /\ LastInstruction \in {"Cmp", "Cpx", "Cpy"} =>
        LET M == Operand(Before, OpCodeOf(last.code)).value.value
            reg == CASE LastInstruction = "Cmp" -> last.pre.accumulator
                     [] LastInstruction = "Cpx" -> last.pre.register_x
                     [] LastInstruction = "Cpy" -> last.pre.register_y
        IN /\ Flag(cpu.status, "Carry") <=> reg >= M
           /\ Flag(cpu.status, "Zero") <=> reg = M
           /\ Flag(cpu.status, "Negative") <=> Bit((reg - M) % 256, 7) = 1

\* C18: after JMP in Absolute mode PC is the 16-bit operand itself.
C18_JmpAbsolute ==
    Completed /\ last.code = 76 => cpu.program_counter = WordOperand

\* C19: after JMP in Indirect mode with pointer p (the 16-bit operand), PC has
\* the low byte at p and the high byte at (p & 0xFF00) | ((p + 1) & 0xFF):
\* for p = $02FF the high byte comes from $0200, not from $0300.
C19_JmpIndirectPageWrap ==
    Completed /\ last.code = 108 =>
        LET p == WordOperand
        IN cpu.program_counter =
               Byte(last.pre_memory, p)
                   + 256 * Byte(last.pre_memory, (p \div 256) * 256 + ((p + 1) % 256))

\* C20: a branch at address a with offset byte o leaves PC at
\* (a + 2 + sign_extend(o)) mod 65536 when its condition holds and at a + 2
\* when it does not; registers, P and memory are as before in both cases.
C20_Branches ==
    LastStep /\ LastMode = "Relative" =>
        LET a == last.pre.program_counter
            o == Byte(last.pre_memory, Wrap16(a + 1))
            target == IF BranchTaken(last.pre.status, LastInstruction)
                      THEN (a + 2 + SignExtend(o)) % 65536
                      ELSE (a + 2) % 65536
        IN /\ phase = "running"
           /\ cpu = [last.pre EXCEPT !.program_counter = target]
           /\ memory = last.pre_memory

\* C21: a step that fetched ADC with accumulator A, operand M and carry-in
\* C_in leaves A = (A + M + C_in) mod 256, C set iff A + M + C_in > 0xFF and
\* V set iff the signed sum leaves -128..127, and the loop goes on.
C21_AdcSum ==
    LastStep /\ LastInstruction = "Adc" =>
        /\ phase = "running"
        /\ LET A == last.pre.accumulator
               M == Operand(Before, OpCodeOf(last.code)).value.value
               C_in == IF Flag(last.pre.status, "Carry") THEN 1 ELSE 0
               signed == SignExtend(A) + SignExtend(M) + C_in
           IN /\ cpu.accumulator = (A + M + C_in) % 256
              /\ Flag(cpu.status, "Carry") <=> A + M + C_in > 255
              /\ Flag(cpu.status, "Overflow") <=> (signed > 127 \/ signed < -128)

\* C22: load_instructions(program) leaves byte i of the program at 0x0600 + i
\* and every other byte of memory as it was, and run_with_reset_pc(true)
\* leaves PC = 0x0600, where run() fetches first, whatever the word at 0xFFFC.
C22_RawProgramAt0600 ==
    /\ last.op = "load_instructions" /\ panic = NoPanic =>
           LET program_mem == last.arg2
               region == 1536..(1536 + Len(program_mem) - 1)
           IN \A a \in region \cup DOMAIN memory \cup DOMAIN last.pre_memory :
                  Byte(memory, a) = IF a \in region
                                    THEN program_mem[a - 1536 + 1]
                                    ELSE Byte(last.pre_memory, a)
    /\ last.op = "run_with_reset_pc" /\ last.arg1 = 1 /\ panic = NoPanic =>
           cpu.program_counter = 1536
    /\ LastStep /\ last.before_code = -1 /\ cpu.program_counter = 1536 =>
           last.code = Byte(last.pre_memory, 1536)

\* The reset vector holds $FFFE, a program is at $0600, and
\* run_with_reset_pc(true) has left PC = $0600.
C22_Witness ==
    /\ last.op = "run_with_reset_pc"
    /\ last.arg1 = 1
    /\ Byte(memory, 65532) = 254
    /\ Byte(memory, 65533) = 255
    /\ Byte(memory, 1536) = 169
    /\ Byte(memory, 1537) = 128
    /\ cpu.program_counter = 1536

\* C23: load_rom_from_bytes(data) succeeds for every data of at most 0x8000
\* bytes, leaves data[i] at 0x8000 + i, and leaves every byte below 0x8000 as
\* it was.
C23_RomAt8000 ==
    last.op = "load_rom_from_bytes" /\ last.arg1 <= 32768 =>
        /\ panic = NoPanic
        /\ \A i \in 0..(last.arg1 - 1) : Byte(memory, 32768 + i) = last.arg2[i + 1]
        /\ \A a \in DOMAIN memory \cup DOMAIN last.pre_memory :
               a < 32768 => Byte(memory, a) = Byte(last.pre_memory, a)

\* C24: a load whose data is longer than its target region returns an error
\* to the caller: the call does not abort and no byte of memory is written.
C24_LoadTooLarge ==
    last.op \in {"load_rom_from_bytes", "load_rom_from_file"} /\ last.arg1 > 32768 =>
        /\ panic = NoPanic
        /\ memory = last.pre_memory

\* The registers with the D bit of P masked out.
WithoutDecimal(registers) == [registers EXCEPT !.status = BitAnd(@, 247)]

\* C25: the decimal flag is inert.  From every state the loop reaches, the
\* next iteration run with D as it is and run with D inverted fetch the same
\* opcode, end the same way, and leave the same memory and the same
\* registers up to the D bit of P; so two executions that start with states
\* differing only in D stay in step and differ only in D after every
\* instruction.
C25_DecimalInert ==
    phase = "running" =>
        LET one == run_iteration(Self)
            other == run_iteration([Self EXCEPT !.cpu.status = BitXor(@, 8)])
        IN /\ one.code = other.code
           /\ one.panic = other.panic
           /\ one.returned = other.returned
           /\ one.memory = other.memory
           /\ WithoutDecimal(one.cpu) = WithoutDecimal(other.cpu)

\* After SED, LDA #$80 has run with D set and the loop goes on at CLD.
C25_Witness ==
    /\ Completed
    /\ last.code = 169
    /\ Flag(last.pre.status, "Decimal")
    /\ Flag(cpu.status, "Decimal")
    /\ cpu.accumulator = 128
    /\ Byte(memory, cpu.program_counter) = 216

\* The flag a flag instruction names.
FlagOf(instruction) ==
    CASE instruction \in {"Clc", "Sec"} -> "Carry"
      [] instruction \in {"Cli", "Sei"} -> "Interrupt"
      [] instruction \in {"Cld", "Sed"} -> "Decimal"
      [] instruction = "Clv" -> "Overflow"

\* C26: whatever P was, after CLC, CLI, CLV, CLD the named flag is 0 and after
\* SEC, SEI, SED it is 1; every other bit of P, A, X, Y, SP and the memory
\* are as before.
C26_FlagInstructions ==
    Completed /\ LastInstruction \in {"Clc", "Cli", "Clv", "Cld", "Sec", "Sei", "Sed"} =>
        LET flag == FlagOf(LastInstruction)
        IN /\ Flag(cpu.status, flag) <=> LastInstruction \in {"Sec", "Sei", "Sed"}
           /\ OtherFlagsKept(flag)
           /\ memory = last.pre_memory
           /\ [cpu EXCEPT !.status = 0, !.program_counter = 0]
                  = [last.pre EXCEPT !.status = 0, !.program_counter = 0]

\* The byte length the reference gives an addressing mode.
ModeLength(mode) ==
    CASE mode \in {"Implied", "Accumulator"} -> 1
      [] mode \in {"Absolute", "AbsoluteX", "AbsoluteY", "Indirect"} -> 3
      [] OTHER -> 2

\* C27: every opcode byte from_byte decodes has the addressing mode and the
\* byte length of the reference: the opcodes $x1 with x even are (d,X), those
\* with x odd are (d),Y, and the length is that of the mode.
C27_TableMatchesReference ==
    Decoded =>
        /\ last.code % 32 = 1 => LastMode = "IndexedIndirectX"
        /\ last.code % 32 = 17 => LastMode = "IndirectIndexedY"
        /\ OpCodeOf(last.code).bytes = ModeLength(LastMode)

\* C28: ASL, LSR, ROL, ROR in Accumulator mode take their value from A and
\* leave the result in A; the memory is as before.
C28_AccumulatorShifts ==
    Completed /\ last.code \in {10, 74, 42, 106} =>
        LET v == last.pre.accumulator
            oldC == IF Flag(last.pre.status, "Carry") THEN 1 ELSE 0
        IN /\ memory = last.pre_memory
           /\ cpu.accumulator =
                  CASE last.code = 10 -> (v * 2) % 256
                    [] last.code = 74 -> v \div 2
                    [] last.code = 42 -> (v * 2 + oldC) % 256
                    [] last.code = 106 -> (v \div 2) + 128 * oldC

\* C29: ASL on a memory operand v stores (v << 1) mod 256 and sets C to bit
\* 7 of v; LSR stores v >> 1 and sets C to bit 0 of v; both set Z iff the
\* stored result is 0 and N to bit 7 of the result (0 for LSR).
C29_ShiftResultAndFlags ==
    Completed /\ LastInstruction \in {"Asl", "Lsr"} /\ LastMode # "Accumulator" =>
        LET operand == Operand(Before, OpCodeOf(last.code)).value
            v == operand.value
            result == IF LastInstruction = "Asl" THEN (v * 2) % 256 ELSE v \div 2
            carry == IF LastInstruction = "Asl" THEN Bit(v, 7) ELSE Bit(v, 0)
        IN /\ Byte(memory, operand.address) = result
           /\ Flag(cpu.status, "Carry") <=> carry = 1
           /\ Flag(cpu.status, "Zero") <=> result = 0
           /\ Flag(cpu.status, "Negative") <=> Bit(result, 7) = 1

\* C30: ROL on a memory operand v with carry-in oldC stores
\* ((v << 1) | oldC) mod 256 and sets C to bit 7 of v; ROR stores
\* (v >> 1) | (oldC << 7) and sets C to bit 0 of v; both set Z and N from the
\* stored result, which the effective address holds afterwards.
C30_RotateResultAndFlags ==
    Completed /\ LastInstruction \in {"Rol", "Ror"} /\ LastMode # "Accumulator" =>
        LET operand == Operand(Before, OpCodeOf(last.code)).value
            v == operand.value
            oldC == IF Flag(last.pre.status, "Carry") THEN 1 ELSE 0
            result == IF LastInstruction = "Rol"
                      THEN (v * 2 + oldC) % 256
                      ELSE (v \div 2) + 128 * oldC
            carry == IF LastInstruction = "Rol" THEN Bit(v, 7) ELSE Bit(v, 0)
        IN /\ Byte(memory, operand.address) = result
           /\ Flag(cpu.status, "Carry") <=> carry = 1
           /\ Flag(cpu.status, "Zero") <=> result = 0
           /\ Flag(cpu.status, "Negative") <=> Bit(result, 7) = 1

\* The bits of P other than Z and N.
WithoutZeroNegative(status) == BitAnd(status, 125)

\* C31: INC and DEC write (v + 1) mod 256 or (v - 1) mod 256, v being the
\* byte read at the effective address before the write, back to that address;
\* every other byte of memory, A, X, Y, SP and the bits of P other than Z and
\* N are as before.
C31_IncDecMemory ==
    Completed /\ LastInstruction \in {"Inc", "Dec"} =>
        LET operand == Operand(Before, OpCodeOf(last.code)).value
            v == operand.value
            result == IF LastInstruction = "Inc" THEN (v + 1) % 256 ELSE (v - 1) % 256
        IN /\ v = Byte(last.pre_memory, operand.address)
           /\ memory = Store(last.pre_memory, operand.address, result)
           /\ [cpu EXCEPT !.status = 0, !.program_counter = 0]
                  = [last.pre EXCEPT !.status = 0, !.program_counter = 0]
           /\ WithoutZeroNegative(cpu.status) = WithoutZeroNegative(last.pre.status)

\* After LDX #$80; STX $FF, INC $FF has turned the $80 at $FF into $81.
C31_Witness ==
    /\ Completed
    /\ last.code = 230
    /\ Byte(last.pre_memory, 255) = 128
    /\ Byte(memory, 255) = 129
    /\ cpu.register_x = 128

\* C32: in the ZeroPageX and ZeroPageY modes the resolved address is
\* (read8(PC) + X) mod 256 or (read8(PC) + Y) mod 256, inside the zero page
\* also when the sum exceeds 0xFF; a store in these modes writes there.
C32_ZeroPageIndexedWraps ==
    Completed /\ LastMode \in {"ZeroPageX", "ZeroPageY"} =>
        LET index == IF LastMode = "ZeroPageX"
                     THEN last.pre.register_x ELSE last.pre.register_y
            expected == (Byte(last.pre_memory, Wrap16(last.pre.program_counter + 1))
                             + index) % 256
            address == get_operand_address(Before, LastMode).value
        IN /\ address = expected
           /\ address \in 0..255
           /\ LastInstruction = "Sta" =>
                  memory = Store(last.pre_memory, expected, last.pre.accumulator)
           /\ LastInstruction = "Stx" =>
                  memory = Store(last.pre_memory, expected, last.pre.register_x)

\* STA $FF,X with X = $80 and A = $42 has written $42 at $007F and nothing
\* at $017F.
C32_Witness ==
    /\ Completed
    /\ last.code = 149
    /\ last.pre.register_x = 128
    /\ Byte(last.pre_memory, Wrap16(last.pre.program_counter + 1)) = 255
    /\ Byte(memory, 127) = 66
    /\ Byte(memory, 383) = 0

\* C33: in the IndexedIndirectX mode, with z = (read8(PC) + X) mod 256, the
\* effective address has low byte read8(z) and high byte read8((z + 1) mod
\* 256): for z = $FF the high byte is the byte at $0000.
C33_IndexedIndirectXPointer ==
    Completed /\ LastMode = "IndexedIndirectX" /\ last.code % 32 = 1 =>
        LET z == (Byte(last.pre_memory, Wrap16(last.pre.program_counter + 1))
                      + last.pre.register_x) % 256
        IN get_operand_address(Before, LastMode).value
               = Byte(last.pre_memory, z)
                     + 256 * Byte(last.pre_memory, (z + 1) % 256)

\* C34: in the IndirectIndexedY mode, with z = read8(PC), the pointer has low
\* byte read8(z) and high byte read8((z + 1) mod 256), for z = $FF too, and
\* the effective address is (pointer + Y) mod 65536.
C34_IndirectIndexedYPointer ==
    Completed /\ LastMode = "IndirectIndexedY" =>
        LET z == Byte(last.pre_memory, Wrap16(last.pre.program_counter + 1))
            pointer == Byte(last.pre_memory, z)
                           + 256 * Byte(last.pre_memory, (z + 1) % 256)
        IN get_operand_address(Before, LastMode).value
               = (pointer + last.pre.register_y) % 65536

\* C35: A, X, Y, SP stay in 0..255 and PC in 0..65535, and PC wraps: an
\* opcode at $FFFF is fetched, and no step ends in an arithmetic overflow of
\* PC.
C35_RegistersWrap ==
    /\ cpu.accumulator \in 0..255
    /\ cpu.register_x \in 0..255
    /\ cpu.register_y \in 0..255
    /\ cpu.stack_pointer \in 0..255
    /\ cpu.program_counter \in 0..65535
    /\ LastStep => panic # AddOverflow
    /\ LastStep /\ last.pre.program_counter = 65535 => last.code \in 0..255

\* C36: after JMP, PC is the value the jump assigned, also when that value is
\* the address of the JMP's first operand byte.
C36_JmpKeepsAssignedPc ==
    Completed /\ LastInstruction = "Jmp" =>
        cpu.program_counter = jmp(Before, OpCodeOf(last.code)).cpu.program_counter

\* C37: LDA, LDX, LDY, AND, ORA, EOR, INC and DEC leave the C, I, D, B, U and
\* V bits of P as they were.
C37_OnlyZeroNegativeChange ==
    Completed /\ LastInstruction \in {"Lda", "Ldx", "Ldy", "And", "Ora", "Eor", "Inc", "Dec"} =>
        WithoutZeroNegative(cpu.status) = WithoutZeroNegative(last.pre.status)

\* After SEC, LDA #1 has run with C set and C is still set.
C37_Witness ==
    /\ Completed
    /\ last.code = 169
    /\ last.before_code = 56
    /\ Flag(last.pre.status, "Carry")
    /\ Flag(cpu.status, "Carry")
    /\ cpu.accumulator = 1
====
